---------------------------- MODULE Spec2Model ----------------------------
(***************************************************************************)
(* Hotel booking backend: POST /api/book (validation, pricing, save,       *)
(* notification) and the protected routes GET/PUT/DELETE /api/bookings.    *)
(* The repository holds two versions of the server file:                   *)
(*   src/unnamed/part_000  (all ten validation rules)                      *)
(*   src/server.js         (rules 1-6 only, "Continue with other           *)
(*                          validations...")                               *)
(* The variable impl says which of the two files the process runs.         *)
(*                                                                         *)
(* JavaScript values of a request body are records [t, s, n]:              *)
(*   t = "undefined"            the property is absent                     *)
(*   t = "string",  s = chars   a string, as a sequence of characters      *)
(*   t = "number",  n = value   a JSON number                              *)
(*   t = "isodate", n = ms      a string in ISO-8601 form that Date parses *)
(*                              to the instant n (ms since the epoch, UTC);*)
(*                              it occurs in date fields only              *)
(*   t = "function"             a member inherited from Object.prototype   *)
(* A JS number that may be NaN is a record [nan, n].                       *)
(* Money is in whole rupees: every base amount of the model is a multiple  *)
(* of 100, so base * 0.12 is a whole number; IEEE rounding is not modelled.*)
(***************************************************************************)
EXTENDS Integers, Sequences, FiniteSets, TLC

VARIABLES
    impl,       \* "part_000" or "server": the server file that is running
    tz,         \* the server's time zone: local time = UTC + tz (ms)
    now,        \* the server clock, ms since the epoch (UTC)
    pool,       \* the request bodies clients send to POST /api/book
    bookings,   \* the Booking collection: id -> document
    nextId,     \* the next identifier the store assigns
    post,       \* the POST /api/book handler: position, locals, response
    mail,       \* notifier: booking id -> "pending" | "sent" | "failed"
    resp,       \* the last response of a protected route
    nUpdates    \* number of update requests that reached the store

vars == <<impl, tz, now, pool, bookings, nextId, post, mail, resp, nUpdates>>

----------------------------------------------------------------------------
(* Bounds of the model *)

MaxBookings == 2        \* bookings created in one behaviour
MaxTicks == 2           \* clock steps in one behaviour
MaxUpdateReqs == 1      \* update requests that reach the store
MaxDeviations == 2      \* fields in which a request differs from Template
StartDay == 3           \* the calendar day (UTC) on which the clock starts

----------------------------------------------------------------------------
(* Program constants *)

MsPerDay == 86400000      \* 1000 * 60 * 60 * 24
MsPerHour == 3600000
DefaultPrice == 1200      \* PROPERTY_PRICES[location] || 1200
PatiaPrice == 1200
NiladriPrice == 1500
GstPercent == 12          \* baseAmount * 0.12
MinNameLen == 2
MaxNameLen == 64
PhoneLen == 10
MinLocationLen == 2

----------------------------------------------------------------------------
(* JavaScript values *)

Undef == [t |-> "undefined", s |-> <<>>, n |-> 0]
Str(s) == [t |-> "string", s |-> s, n |-> 0]
Num(n) == [t |-> "number", s |-> <<>>, n |-> n]
IsoDate(ms) == [t |-> "isodate", s |-> <<>>, n |-> ms]

NaN == [nan |-> TRUE, n |-> 0]
Fin(n) == [nan |-> FALSE, n |-> n]

Digits == {"0", "1", "2", "3", "4", "5", "6", "7", "8", "9"}

DigitVal(c) ==
    CASE c = "0" -> 0 [] c = "1" -> 1 [] c = "2" -> 2 [] c = "3" -> 3
      [] c = "4" -> 4 [] c = "5" -> 5 [] c = "6" -> 6 [] c = "7" -> 7
      [] c = "8" -> 8 [] c = "9" -> 9

\* !v
Falsy(v) ==
    \/ v.t = "undefined"
    \/ v.t = "string" /\ v.s = <<>>
    \/ v.t = "number" /\ v.n = 0

RECURSIVE TrimLeft(_)
TrimLeft(s) == IF s # <<>> /\ Head(s) = " " THEN TrimLeft(Tail(s)) ELSE s

RECURSIVE TrimRight(_)
TrimRight(s) ==
    IF s # <<>> /\ s[Len(s)] = " " THEN TrimRight(SubSeq(s, 1, Len(s) - 1)) ELSE s

\* String.prototype.trim
Trim(s) == TrimRight(TrimLeft(s))

IsDigit(c) == c \in Digits

\* phone.replace(/\D/g, '')
StripNonDigits(s) == SelectSeq(s, IsDigit)

RECURSIVE DigitsValue(_)
DigitsValue(s) ==
    IF s = <<>> THEN 0 ELSE 10 * DigitsValue(SubSeq(s, 1, Len(s) - 1)) + DigitVal(s[Len(s)])

\* Number(v): a number is itself, a string of digits its value (whitespace
\* around it ignored, the empty string 0), anything else NaN.
ToNumber(v) ==
    IF v.t = "number" THEN Fin(v.n)
    ELSE IF v.t = "string" /\ (\A i \in 1..Len(Trim(v.s)) : Trim(v.s)[i] \in Digits)
         THEN Fin(DigitsValue(Trim(v.s)))
    ELSE NaN

\* isNaN(v) of a body value
IsNaNValue(v) == ToNumber(v).nan

\* new Date(v): the time value, NaN for an invalid date
ParseDate(v) ==
    IF v.t \in {"isodate", "number"} THEN Fin(v.n) ELSE NaN

Mul(a, b) == IF a.nan \/ b.nan THEN NaN ELSE Fin(a.n * b.n)

\* Math.ceil(ms / (1000 * 60 * 60 * 24))
CeilDays(ms) == -((-ms) \div MsPerDay)

\* new Date(); setHours(0, 0, 0, 0): local midnight of the clock's day, in UTC ms
TodayOf(clock, zone) == ((clock + zone) \div MsPerDay) * MsPerDay - zone


----------------------------------------------------------------------------
(* Strings of the program and of the requests *)

Patia == <<"P", "a", "t", "i", "a">>
Niladri == <<"N", "i", "l", "a", "d", "r", "i">>
Constructor == <<"c", "o", "n", "s", "t", "r", "u", "c", "t", "o", "r">>
ToStringName == <<"t", "o", "S", "t", "r", "i", "n", "g">>
ValueOfName == <<"v", "a", "l", "u", "e", "O", "f">>

\* Names every object literal inherits from Object.prototype
ObjectPrototypeKeys == {Constructor, ToStringName, ValueOfName}

\* const PROPERTY_PRICES = { Patia: 1200, Niladri: 1500 }; PROPERTY_PRICES[key]
PROPERTY_PRICES(key) ==
    IF key.t = "string" /\ key.s = Patia THEN Num(PatiaPrice)
    ELSE IF key.t = "string" /\ key.s = Niladri THEN Num(NiladriPrice)
    ELSE IF key.t = "string" /\ key.s \in ObjectPrototypeKeys
         THEN [t |-> "function", s |-> <<>>, n |-> 0]
    ELSE Undef

\* const bookingPrice = PROPERTY_PRICES[location] || 1200
bookingPrice(location) ==
    IF Falsy(PROPERTY_PRICES(location)) THEN Num(DefaultPrice)
    ELSE PROPERTY_PRICES(location)

ErrName == "Name must be between 2 to 64 characters"
ErrPhone == "Phone number must be exactly 10 digits"
ErrDatesRequired == "Check-in and check-out dates are required"
ErrDatesValid == "Dates must be valid"
ErrPast == "Check-in date cannot be in the past"
ErrCheckout == "Check-out date must be after check-in"
ErrAdults == "At least one adult must be specified"
ErrChildren == "Number of children must be zero or more"
ErrRooms == "At least one room must be specified"
ErrLocation == "Location is required and must be valid"
ErrInternal == "Internal server error"
NoError == ""

Reject(msg) == [kind |-> "reject", error |-> msg]
Throw == [kind |-> "throw", error |-> ErrInternal]
Pass == [kind |-> "ok", error |-> NoError]

\* children = 0 in the destructuring of req.body
ChildrenOf(body) == IF body.children.t = "undefined" THEN Num(0) ELSE body.children

\* if (!name || typeof name !== 'string' || name.trim().length < 2 || ... > 64)
NameFails(name) ==
    \/ Falsy(name)
    \/ name.t # "string"
    \/ Len(Trim(name.s)) < MinNameLen
    \/ Len(Trim(name.s)) > MaxNameLen

\* phone ? phone.replace(/\D/g, '') : '' throws when phone is truthy and no string
PhoneThrows(phone) == ~Falsy(phone) /\ phone.t # "string"

phoneNumber(phone) == IF Falsy(phone) THEN <<>> ELSE StripNonDigits(phone.s)

\* if (!phoneNumber || phoneNumber.length !== 10)
PhoneFails(phone) == phoneNumber(phone) = <<>> \/ Len(phoneNumber(phone)) # PhoneLen

\* if (!adults || isNaN(adults) || Number(adults) < 1), and the same for rooms
CountFails(v) == Falsy(v) \/ IsNaNValue(v) \/ ToNumber(v).n < 1

\* if (typeof children !== 'undefined' && (isNaN(children) || Number(children) < 0))
ChildrenFails(v) == v.t # "undefined" /\ (IsNaNValue(v) \/ ToNumber(v).n < 0)

\* if (!location || typeof location !== 'string' || location.trim().length < 2)
LocationFails(location) ==
    \/ Falsy(location)
    \/ location.t # "string"
    \/ Len(Trim(location.s)) < MinLocationLen

\* Rules 1-6, which both server files hold, in the order of the code
ValidateCommon(body, today) ==
    IF NameFails(body.name) THEN Reject(ErrName)
    ELSE IF PhoneThrows(body.phone) THEN Throw
    ELSE IF PhoneFails(body.phone) THEN Reject(ErrPhone)
    ELSE IF Falsy(body.checkin) \/ Falsy(body.checkout) THEN Reject(ErrDatesRequired)
    ELSE IF ParseDate(body.checkin).nan \/ ParseDate(body.checkout).nan
         THEN Reject(ErrDatesValid)
    ELSE IF ParseDate(body.checkin).n < today THEN Reject(ErrPast)
    ELSE IF ParseDate(body.checkout).n <= ParseDate(body.checkin).n
         THEN Reject(ErrCheckout)
    ELSE Pass

\* Rules 7-10, which only part_000 holds
ValidateRest(body) ==
    IF CountFails(body.adults) THEN Reject(ErrAdults)
    ELSE IF ChildrenFails(ChildrenOf(body)) THEN Reject(ErrChildren)
    ELSE IF CountFails(body.rooms) THEN Reject(ErrRooms)
    ELSE IF LocationFails(body.location) THEN Reject(ErrLocation)
    ELSE Pass

\* The validation section of app.post('/api/book') in the running file
Validate(file, body, today) ==
    IF ValidateCommon(body, today).kind # "ok" THEN ValidateCommon(body, today)
    ELSE IF file = "part_000" THEN ValidateRest(body)
    ELSE Pass

\* location.trim() in new Booking({...}) throws when location is no string
LocationTrimThrows(location) == location.t # "string"

\* const nights = Math.ceil((checkoutDate.getTime() - checkinDate.getTime()) / day)
nights(body) == CeilDays(ParseDate(body.checkout).n - ParseDate(body.checkin).n)

\* const baseAmount = bookingPrice * nights * roomsCount
baseAmount(body) ==
    Mul(Mul(ToNumber(bookingPrice(body.location)), Fin(nights(body))), ToNumber(body.rooms))

\* const gst = baseAmount * 0.12; const totalAmount = baseAmount + gst
totalAmount(body) ==
    IF baseAmount(body).nan THEN NaN
    ELSE Fin(baseAmount(body).n + (baseAmount(body).n * GstPercent) \div 100)

\* new Booking({...}): the document handed to save(); createdAt and remark
\* take the schema's defaults (Date.now, "")
NewBooking(body, clock) ==
    [ name        |-> Trim(body.name.s),
      phone       |-> phoneNumber(body.phone),
      checkin     |-> ParseDate(body.checkin).n,
      checkout    |-> ParseDate(body.checkout).n,
      adults      |-> ToNumber(body.adults),
      children    |-> ToNumber(ChildrenOf(body)),
      rooms       |-> ToNumber(body.rooms),
      location    |-> Trim(body.location.s),
      totalAmount |-> totalAmount(body),
      createdAt   |-> clock,
      remark      |-> <<>> ]

\* bookingSchema: what save() validates before it writes
SchemaValid(doc) ==
    /\ Len(doc.name) >= MinNameLen /\ Len(doc.name) <= MaxNameLen
    /\ Len(doc.phone) = PhoneLen /\ \A i \in 1..Len(doc.phone) : doc.phone[i] \in Digits
    /\ doc.location # <<>>
    /\ ~doc.adults.nan /\ doc.adults.n >= 1
    /\ ~doc.children.nan /\ doc.children.n >= 0
    /\ ~doc.rooms.nan /\ doc.rooms.n >= 1
    /\ ~doc.totalAmount.nan

\* The document as the collection holds it
Stored(doc) ==
    [doc EXCEPT !.adults = doc.adults.n, !.children = doc.children.n,
                !.rooms = doc.rooms.n, !.totalAmount = doc.totalAmount.n]


----------------------------------------------------------------------------
(* Requests: the bodies sent to POST /api/book *)

Day(d) == d * MsPerDay
Now0 == Day(StartDay) + 10 * MsPerHour      \* 10:00 UTC on the start day
TickMs == 12 * MsPerHour
TimeZones == {-5 * MsPerHour, 0, 11 * (MsPerHour \div 2)}

Jo == <<"J", "o">>
Phone10 == <<"9", "8", "7", "6", "5", "4", "3", "2", "1", "0">>
PhoneDashed == <<"9", "8", "-", "7", "6", "5", "4", "-", "3", "2", "1", "0">>
Phone5 == <<"1", "2", "3", "4", "5">>
Goa == <<"G", "o", "a">>
Xs(k) == [i \in 1..k |-> "x"]

BodyFields ==
    {"name", "phone", "checkin", "checkout", "adults", "children", "rooms",
     "location", "totalAmount"}

\* A request every rule accepts, whatever the clock and the time zone
Template ==
    [ name        |-> Str(Jo),
      phone       |-> Str(Phone10),
      checkin     |-> IsoDate(Day(StartDay + 2)),
      checkout    |-> IsoDate(Day(StartDay + 3)),
      adults      |-> Num(2),
      children    |-> Undef,
      rooms       |-> Num(1),
      location    |-> Str(Patia),
      totalAmount |-> Undef ]

\* The other values a field takes
FieldValues(f) ==
    CASE f = "name" ->
           {Undef, Num(5), Str(<<" ", "J", " ">>), Str(<<" ", "J", "o", " ">>),
            Str(Xs(MaxNameLen)), Str(Xs(MaxNameLen + 1))}
      [] f = "phone" ->
           {Undef, Num(12345), Str(Phone5), Str(PhoneDashed), Str(Phone10 \o <<"9">>)}
      [] f = "checkin" ->
           {Undef, Str(<<"x">>), IsoDate(Day(StartDay - 1)), IsoDate(Day(StartDay)),
            IsoDate(Day(StartDay + 1))}
      [] f = "checkout" ->
           {Undef, Str(<<"x">>), IsoDate(Day(StartDay + 2)),
            IsoDate(Day(StartDay + 3) + TickMs), IsoDate(Day(StartDay + 5))}
      [] f = "adults" -> {Undef, Num(0), Str(<<"a">>)}
      [] f = "children" -> {Num(-1), Num(2), Str(<<"a">>)}
      [] f = "rooms" -> {Undef, Num(0), Num(3), Str(<<"2">>)}
      [] f = "location" ->
           {Undef, Num(7), Str(<<"a">>), Str(<<" ", " ">>), Str(Niladri),
            Str(<<" ">> \o Niladri), Str(Goa), Str(Constructor)}
      [] f = "totalAmount" -> {Num(1)}

\* The bodies that differ from a body of S in at most one more field
Deviate1(S) ==
    S \cup UNION {{[b EXCEPT ![f] = v] : v \in FieldValues(f)} : b \in S, f \in BodyFields}

RECURSIVE Deviate(_, _)
Deviate(S, k) == IF k = 0 THEN S ELSE Deviate(Deviate1(S), k - 1)

\* Every body that differs from Template in at most MaxDeviations fields
Requests == Deviate({Template}, MaxDeviations)

\* The body of the specification of the store: an accepted one that also
\* carries a totalAmount
StoreRequests == {[Template EXCEPT !.totalAmount = Num(1)]}

----------------------------------------------------------------------------
(* State *)

Res(status, error) == [status |-> status, error |-> error]
NoRes == Res(0, NoError)

IdlePost ==
    [ pc |-> "idle", body |-> Template, today |-> 0, doc |-> NewBooking(Template, 0),
      bookingPrice |-> Undef, nights |-> 0, id |-> 0, res |-> NoRes ]

NoCred == [header |-> FALSE, token |-> FALSE, valid |-> FALSE, role |-> "none"]

DocFields ==
    {"name", "phone", "location", "checkin", "checkout", "adults", "children",
     "rooms", "totalAmount", "createdAt", "remark"}

\* An update payload gives every field a value; Undef: the field is absent
NoPayload == [f \in DocFields |-> Undef]

NoResp ==
    [ route |-> "none", cred |-> NoCred, id |-> 0, payload |-> NoPayload,
      status |-> 0, error |-> NoError, by |-> "none" ]

InitWith(files, zones, pools) ==
    /\ impl \in files
    /\ tz \in zones
    /\ now = Now0
    /\ pool \in pools
    /\ bookings = <<>>
    /\ nextId = 1
    /\ post = IdlePost
    /\ mail = <<>>
    /\ resp = NoResp
    /\ nUpdates = 0

Files == {"part_000", "server"}

\* The store and its protected routes, fed by StoreRequests
Init == InitWith(Files, {0}, {StoreRequests})

\* One request of Requests, sent to POST /api/book
InitV == InitWith(Files, TimeZones, {{b} : b \in Requests})

----------------------------------------------------------------------------
(* POST /api/book *)

\* The handler up to await booking.save(): destructuring, validation,
\* pricing, new Booking({...})
BookReceive(body) ==
    /\ post.pc \in {"idle", "done"}
    /\ nextId <= MaxBookings
    /\ LET today == TodayOf(now, tz)
           v == Validate(impl, body, today)
           start == [IdlePost EXCEPT !.body = body, !.today = today]
       IN  post' =
             IF v.kind = "reject"
             THEN [start EXCEPT !.pc = "done", !.res = Res(400, v.error)]
             ELSE IF v.kind = "throw" \/ LocationTrimThrows(body.location)
             THEN [start EXCEPT !.pc = "done", !.res = Res(500, ErrInternal)]
             ELSE [start EXCEPT !.pc = "saving",
                                !.doc = NewBooking(body, now),
                                !.bookingPrice = bookingPrice(body.location),
                                !.nights = nights(body)]
    /\ UNCHANGED <<impl, tz, now, pool, bookings, nextId, mail, resp, nUpdates>>

\* booking.save() validates against bookingSchema and writes the document
SaveCommit ==
    /\ post.pc = "saving"
    /\ SchemaValid(post.doc)
    /\ bookings' = bookings @@ (nextId :> Stored(post.doc))
    /\ nextId' = nextId + 1
    /\ post' = [post EXCEPT !.pc = "saved", !.id = nextId]
    /\ UNCHANGED <<impl, tz, now, pool, mail, resp, nUpdates>>

\* booking.save() rejects (a validation error, or the store fails): the catch
\* block answers 500 and nothing is written
SaveFail ==
    /\ post.pc = "saving"
    /\ post' = [post EXCEPT !.pc = "done", !.res = Res(500, ErrInternal)]
    /\ UNCHANGED <<impl, tz, now, pool, bookings, nextId, mail, resp, nUpdates>>

\* After the await: transporter.sendMail(mailOptions, callback); res.json({success: true, ...})
BookRespond ==
    /\ post.pc = "saved"
    /\ mail' = mail @@ (post.id :> "pending")
    /\ post' = [post EXCEPT !.pc = "done", !.res = Res(200, NoError)]
    /\ UNCHANGED <<impl, tz, now, pool, bookings, nextId, resp, nUpdates>>

\* The callback answers the request with an error when the notifier fails
MailCallbackAnswers(id, outcome) ==
    /\ id \in DOMAIN mail
    /\ mail[id] = "pending"
    /\ mail' = [mail EXCEPT ![id] = outcome]
    /\ post' = IF outcome = "failed" /\ post.id = id
               THEN [post EXCEPT !.res = Res(500, ErrInternal)]
               ELSE post
    /\ UNCHANGED <<impl, tz, now, pool, bookings, nextId, resp, nUpdates>>

\* The sendMail callback: (error, info) => { if (error) console.error(...) }
MailCallback(id, outcome) ==
    /\ id \in DOMAIN mail
    /\ mail[id] = "pending"
    /\ mail' = [mail EXCEPT ![id] = outcome]
    /\ UNCHANGED <<impl, tz, now, pool, bookings, nextId, post, resp, nUpdates>>

\* Time passes
Tick ==
    /\ now < Now0 + MaxTicks * TickMs
    /\ now' = now + TickMs
    /\ UNCHANGED <<impl, tz, pool, bookings, nextId, post, mail, resp, nUpdates>>

----------------------------------------------------------------------------
(* Auth Gate *)

Admin == [header |-> TRUE, token |-> TRUE, valid |-> TRUE, role |-> "admin"]
Manager == [header |-> TRUE, token |-> TRUE, valid |-> TRUE, role |-> "manager"]
\* A token jwt.verify rejects (bad signature, expired), whatever role it claims
Forged == [header |-> TRUE, token |-> TRUE, valid |-> FALSE, role |-> "admin"]
\* An Authorization header with no second word ("Bearer")
HeaderOnly == [header |-> TRUE, token |-> FALSE, valid |-> FALSE, role |-> "none"]

Credentials == {NoCred, HeaderOnly, Forged, Admin, Manager}

Verdict(status, error, by) == [status |-> status, error |-> error, by |-> by]
Next200 == Verdict(200, NoError, "handler")

\* jwt.decode in place of jwt.verify: the token is read, not verified
authenticateTokenUnverified(cred) ==
    IF ~(cred.header /\ cred.token) THEN Verdict(401, "Unauthorized", "authenticateToken")
    ELSE Next200

\* authenticateToken: 401 without a token, 403 when jwt.verify fails, else next()
authenticateToken(cred) ==
    IF ~(cred.header /\ cred.token) THEN Verdict(401, "Unauthorized", "authenticateToken")
    ELSE IF ~cred.valid THEN Verdict(403, "Forbidden", "authenticateToken")
    ELSE Next200

\* The role is not compared: any authenticated user passes
authorizeRolesAnyRole(roles, cred) == Next200

\* authorizeRoles(...roles): 403 unless req.user.role is one of roles
authorizeRoles(roles, cred) ==
    IF cred.role \notin roles
    THEN Verdict(403, "Forbidden: insufficient rights", "authorizeRoles")
    ELSE Next200

\* The middleware chain authenticateToken, authorizeRoles('admin')
AdminGate(cred) ==
    IF authenticateToken(cred).by # "handler" THEN authenticateToken(cred)
    ELSE authorizeRoles({"admin"}, cred)

----------------------------------------------------------------------------
(* Protected routes *)

StringFields == {"name", "phone", "location", "remark"}
NumberFields == {"adults", "children", "rooms", "totalAmount"}
DateFields == {"checkin", "checkout", "createdAt"}

RECURSIVE NatToDigits(_)
NatToDigits(n) ==
    IF n < 10 THEN <<CHOOSE c \in Digits : DigitVal(c) = n>>
    ELSE NatToDigits(n \div 10) \o <<CHOOSE c \in Digits : DigitVal(c) = n % 10>>

\* Whether the schema type of field f casts the value v
CastOk(f, v) ==
    IF f \in StringFields THEN v.t = "string" \/ (v.t = "number" /\ v.n >= 0)
    ELSE IF f \in NumberFields THEN ~ToNumber(v).nan
    ELSE ~ParseDate(v).nan

\* The value the schema type of field f casts v to
CastTo(f, v) ==
    IF f \in StringFields THEN (IF v.t = "string" THEN v.s ELSE NatToDigits(v.n))
    ELSE IF f \in NumberFields THEN ToNumber(v).n
    ELSE ParseDate(v).n

\* The payload replaces the document: a field it does not name is emptied
ApplyUpdateReplace(doc, payload) ==
    [f \in DocFields |->
        IF payload[f].t # "undefined" THEN CastTo(f, payload[f])
        ELSE IF f \in StringFields THEN <<>> ELSE 0]

\* findByIdAndUpdate(id, updateData): $set of the payload's fields, cast by
\* the schema, validators not run
ApplyUpdate(doc, payload) ==
    [f \in DocFields |-> IF payload[f].t = "undefined" THEN doc[f] ELSE CastTo(f, payload[f])]

\* The update payloads of the model: the empty one, payloads that name one
\* field (a value the creation rules would refuse, a value that does not
\* cast, a value that is cast, totalAmount, createdAt) and two that name two
Payloads ==
    { NoPayload,
      [NoPayload EXCEPT !["name"] = Str(<<"A">>)],
      [NoPayload EXCEPT !["checkout"] = Str(<<"x">>)],
      [NoPayload EXCEPT !["rooms"] = Str(<<"2">>)],
      [NoPayload EXCEPT !["totalAmount"] = Num(1)],
      [NoPayload EXCEPT !["createdAt"] = IsoDate(0)],
      [NoPayload EXCEPT !["remark"] = Num(7)],
      [NoPayload EXCEPT !["remark"] = Str(<<"o", "k">>), !["adults"] = Num(0)],
      [NoPayload EXCEPT !["checkout"] = IsoDate(Day(StartDay + 1)),
                        !["phone"] = Str(Phone5)] }

Answer(route, cred, id, payload, v) ==
    [ route |-> route, cred |-> cred, id |-> id, payload |-> payload,
      status |-> v.status, error |-> v.error, by |-> v.by ]

\* app.get('/api/bookings', authenticateToken, handler)
Get(cred) ==
    /\ resp' = Answer("GET", cred, 0, NoPayload, authenticateToken(cred))
    /\ UNCHANGED <<impl, tz, now, pool, bookings, nextId, post, mail, nUpdates>>

\* The handler of PUT /api/bookings/:id
PutHandler(id, payload) ==
    IF \E f \in DocFields : payload[f].t # "undefined" /\ ~CastOk(f, payload[f])
    THEN Verdict(500, ErrInternal, "handler")
    ELSE IF id \notin DOMAIN bookings THEN Verdict(404, "Booking not found", "handler")
    ELSE Next200

\* app.put('/api/bookings/:id', authenticateToken, authorizeRoles('admin'), handler)
Put(cred, id, payload) ==
    LET gate == AdminGate(cred)
        v == IF gate.by # "handler" THEN gate ELSE PutHandler(id, payload)
    IN  /\ gate.by = "handler" => nUpdates < MaxUpdateReqs
        /\ resp' = IF gate.by # "handler" THEN Answer("PUT", cred, 0, NoPayload, v)
                   ELSE Answer("PUT", cred, id, payload, v)
        /\ bookings' =
             IF v.by = "handler" /\ v.status = 200
             THEN [bookings EXCEPT ![id] = ApplyUpdate(bookings[id], payload)]
             ELSE bookings
        /\ nUpdates' = IF gate.by = "handler" THEN nUpdates + 1 ELSE nUpdates
        /\ UNCHANGED <<impl, tz, now, pool, nextId, post, mail>>

\* app.delete('/api/bookings/:id', authenticateToken, authorizeRoles('admin'), handler)
Delete(cred, id) ==
    LET gate == AdminGate(cred)
        v == IF gate.by # "handler" THEN gate
             ELSE IF id \notin DOMAIN bookings
                  THEN Verdict(404, "Booking not found", "handler")
             ELSE Next200
    IN  /\ resp' = IF gate.by # "handler" THEN Answer("DELETE", cred, 0, NoPayload, v)
                   ELSE Answer("DELETE", cred, id, NoPayload, v)
        /\ bookings' =
             IF v.by = "handler" /\ v.status = 200
             THEN [i \in DOMAIN bookings \ {id} |-> bookings[i]]
             ELSE bookings
        /\ UNCHANGED <<impl, tz, now, pool, nextId, post, mail, nUpdates>>

----------------------------------------------------------------------------
(* Specifications *)

\* POST /api/book and the notifier
NextV ==
    \/ \E body \in pool : BookReceive(body)
    \/ SaveCommit
    \/ SaveFail
    \/ BookRespond
    \/ \E id \in 1..MaxBookings, outcome \in {"sent", "failed"} : MailCallback(id, outcome)
    \/ Tick

\* A refused request is answered before its id and its body are read: one
\* id and one payload stand for all of them
IdsFor(cred) == IF AdminGate(cred).by = "handler" THEN 1..MaxBookings ELSE {1}
PayloadsFor(cred) == IF AdminGate(cred).by = "handler" THEN Payloads ELSE {NoPayload}

\* POST /api/book and the protected routes
Next ==
    \/ \E body \in pool : BookReceive(body)
    \/ SaveCommit
    \/ SaveFail
    \/ BookRespond
    \/ \E cred \in Credentials : Get(cred)
    \/ \E cred \in Credentials :
         \E id \in IdsFor(cred), payload \in PayloadsFor(cred) : Put(cred, id, payload)
    \/ \E cred \in Credentials : \E id \in IdsFor(cred) : Delete(cred, id)

Spec == Init /\ [][Next]_vars

\* Every request of Requests, alone
SpecV == InitV /\ [][NextV]_vars

\* The requests of the store, with the notifier calling back
SpecN == Init /\ [][NextV]_vars

----------------------------------------------------------------------------
(* The claims *)

\* The text of a body value: a string's characters, a number's digits
TextOf(v) ==
    IF v.t = "string" THEN v.s
    ELSE IF v.t = "number" /\ v.n >= 0 THEN NatToDigits(v.n)
    ELSE <<>>

Present(v) == v.t # "undefined" /\ ~(v.t = "string" /\ v.s = <<>>)

\* The ten rules as the specification lists them (section 4.1), each as the
\* condition under which the rule is satisfied
Rule1(b) ==
    /\ b.name.t = "string"
    /\ Len(Trim(b.name.s)) >= MinNameLen
    /\ Len(Trim(b.name.s)) <= MaxNameLen
Rule2(b) == Present(b.phone) /\ Len(StripNonDigits(TextOf(b.phone))) = PhoneLen
Rule3(b) == Present(b.checkin) /\ Present(b.checkout)
Rule4(b) == b.checkin.t = "isodate" /\ b.checkout.t = "isodate"
Rule5(b, today) == b.checkin.n >= today
Rule6(b) == b.checkout.n > b.checkin.n
Rule7(b) == Present(b.adults) /\ ~ToNumber(b.adults).nan /\ ToNumber(b.adults).n >= 1
Rule8(b) ==
    b.children.t = "undefined" \/ (~ToNumber(b.children).nan /\ ToNumber(b.children).n >= 0)
Rule9(b) == Present(b.rooms) /\ ~ToNumber(b.rooms).nan /\ ToNumber(b.rooms).n >= 1
Rule10(b) == b.location.t = "string" /\ Len(Trim(b.location.s)) >= MinLocationLen

\* The reason of the first rule the body fails, NoError when it fails none
FirstFailure(b, today) ==
    IF ~Rule1(b) THEN ErrName
    ELSE IF ~Rule2(b) THEN ErrPhone
    ELSE IF ~Rule3(b) THEN ErrDatesRequired
    ELSE IF ~Rule4(b) THEN ErrDatesValid
    ELSE IF ~Rule5(b, today) THEN ErrPast
    ELSE IF ~Rule6(b) THEN ErrCheckout
    ELSE IF ~Rule7(b) THEN ErrAdults
    ELSE IF ~Rule8(b) THEN ErrChildren
    ELSE IF ~Rule9(b) THEN ErrRooms
    ELSE IF ~Rule10(b) THEN ErrLocation
    ELSE NoError

\* C1: every request to POST /api/book that fails one of the ten rules is
\* answered 400 with the reason of the first rule it fails, in the order
\* name, phone, dates present, dates valid, check-in not past, check-out after
\* check-in, adults, children, rooms, location; it is never answered 500 and
\* never passes validation.
C1_FirstFailureReported ==
    post.pc # "idle" /\ FirstFailure(post.body, post.today) # NoError
        => post.pc = "done" /\ post.res = Res(400, FirstFailure(post.body, post.today))

\* C2: every booking in the store has checkout after checkin, a name of 2
\* to 64 characters, a phone of exactly 10 digits, adults >= 1, children >= 0
\* and rooms >= 1.
C2_StoreInvariants ==
    \A id \in DOMAIN bookings :
        /\ bookings[id].checkout > bookings[id].checkin
        /\ Len(bookings[id].name) >= MinNameLen
        /\ Len(bookings[id].name) <= MaxNameLen
        /\ Len(bookings[id].phone) = PhoneLen
        /\ \A i \in 1..Len(bookings[id].phone) : bookings[id].phone[i] \in Digits
        /\ bookings[id].adults >= 1
        /\ bookings[id].children >= 0
        /\ bookings[id].rooms >= 1

\* The price table as the specification states it
PricePerNight(location) ==
    IF location = Patia THEN 1200 ELSE IF location = Niladri THEN 1500 ELSE 1200

\* C3: every booking persisted by POST /api/book has nights >= 1 and
\* totalAmount = pricePerNight(stored location) x nights x stored rooms x 1.12,
\* nights being the days from checkin to checkout, rounded up.
C3_TotalOfStoredBooking ==
    \A id \in DOMAIN bookings :
        LET d == bookings[id]
            n == CeilDays(d.checkout - d.checkin)
        IN  /\ n >= 1
            /\ 100 * d.totalAmount = PricePerNight(d.location) * n * d.rooms * 112

\* C4: the nightly rate booking creation uses is 1200 for "Patia", 1500 for
\* "Niladri" and 1200 for every other location that passes validation.
C4_RateOfLocation ==
    post.pc \in {"saving", "saved"} /\ FirstFailure(post.body, post.today) = NoError
        => post.bookingPrice = Num(PricePerNight(post.body.location.s))

\* C5: a stored totalAmount is the pricing calculator's value, never a
\* client's: a booking enters the store with the total computed from the
\* request's location, dates and rooms, and no later request changes it.
C5_TotalNeverClientSupplied ==
    [][\A id \in DOMAIN bookings' :
          IF id \in DOMAIN bookings
          THEN bookings'[id].totalAmount = bookings[id].totalAmount
          ELSE bookings'[id].totalAmount = totalAmount(post.body).n]_vars

\* C6: createdAt of a stored booking never changes.
C6_CreatedAtImmutable ==
    [][\A id \in DOMAIN bookings \cap DOMAIN bookings' :
          bookings'[id].createdAt = bookings[id].createdAt]_vars

Authorized(cred) == cred.header /\ cred.token /\ cred.valid /\ cred.role = "admin"

\* A step that answers an update request
PutStep == resp'.route = "PUT" /\ (resp' # resp \/ nUpdates' # nUpdates)

\* The frame of one update request: no other booking changes, none is added
\* or removed, and the target keeps every field the payload does not name
PutFrame(id, payload) ==
    /\ DOMAIN bookings' = DOMAIN bookings
    /\ \A i \in DOMAIN bookings \ {id} : bookings'[i] = bookings[i]
    /\ id \in DOMAIN bookings =>
         \A f \in DocFields : payload[f].t = "undefined" => bookings'[id][f] = bookings[id][f]
    /\ id \notin DOMAIN bookings => bookings' = bookings

C9_Unauthenticated401 ==
    resp.route # "none" /\ ~(resp.cred.header /\ resp.cred.token /\ resp.cred.valid)
        => resp.status = 401 /\ resp.error = "Unauthorized" /\ resp.by = "authenticateToken"

\* C9 as amended: on the protected routes a request with no credential is
\* answered 401 "Unauthorized", a request whose credential is invalid is
\* answered 403 "Forbidden", and in both cases the handler does not run.
C9_UnauthenticatedRefused ==
    resp.route # "none" /\ ~(resp.cred.header /\ resp.cred.token /\ resp.cred.valid)
        => /\ resp.by = "authenticateToken"
           /\ IF resp.cred.header /\ resp.cred.token
              THEN resp.status = 403 /\ resp.error = "Forbidden"
              ELSE resp.status = 401 /\ resp.error = "Unauthorized"

\* A request with an invalid token has been answered while the store holds a booking
C9_Witness ==
    /\ resp.route \in {"GET", "PUT", "DELETE"}
    /\ resp.cred = Forged
    /\ resp.status = 403
    /\ DOMAIN bookings # {}

\* C10: the notification is dispatched only for a booking the store already
\* holds; once the write has committed the handler's next step sends the
\* success response (200) and dispatches the notification; and a callback of
\* the notifier, success or failure, changes neither the response nor the
\* store, so the response stays a success whether the notifier succeeds,
\* fails or never calls back.
C10_FireAndForget ==
    [][/\ \A id \in DOMAIN mail' \ DOMAIN mail :
             id \in DOMAIN bookings /\ mail'[id] = "pending" /\ post'.res = Res(200, NoError)
       /\ post.pc = "saved" /\ post' # post
             => post'.pc = "done" /\ post'.res = Res(200, NoError) /\ post.id \in DOMAIN mail'
       /\ post.pc = "saved" => bookings' = bookings
       /\ \A id \in 1..MaxBookings, outcome \in {"sent", "failed"} :
             MailCallback(id, outcome) => post' = post /\ bookings' = bookings
       /\ \A id \in DOMAIN mail' :
             post'.id = id /\ post'.pc = "done" => post'.res = Res(200, NoError)]_vars

\* The notifier has failed for a booking that is stored and was answered 200
C10_Witness ==
    /\ post.id \in DOMAIN mail
    /\ mail[post.id] = "failed"
    /\ post.pc = "done"
    /\ post.res = Res(200, NoError)
    /\ post.id \in DOMAIN bookings

\* A step in which POST /api/book takes a request and validates it
ReceiveStep == post.pc \in {"idle", "done"} /\ post' # post

\* The calendar day of the server, in its time zone, at the clock's time
LocalDay == (now + tz) \div MsPerDay

\* Every field but the dates satisfies its rule, and both dates are given
\* as dates
OtherFieldsValid(b) ==
    /\ Rule1(b) /\ Rule2(b) /\ Rule3(b) /\ Rule4(b)
    /\ Rule7(b) /\ Rule8(b) /\ Rule9(b) /\ Rule10(b)

\* C11: whatever the clock and the time zone of the server, with the other
\* fields valid: a request whose check-in is today's calendar date passes
\* validation; one whose check-in is the day before today is rejected with
\* "Check-in date cannot be in the past"; one whose check-out equals its
\* check-in (not in the past) is rejected with "Check-out date must be after
\* check-in".
C11_DateBoundaries ==
    [][ReceiveStep /\ OtherFieldsValid(post'.body) =>
          /\ post'.body.checkin = IsoDate(Day(LocalDay)) /\ Rule6(post'.body)
               => post'.pc = "saving"
          /\ post'.body.checkin = IsoDate(Day(LocalDay - 1))
               => post'.pc = "done" /\ post'.res = Res(400, ErrPast)
          /\ post'.body.checkout = post'.body.checkin
                /\ post'.body.checkin.n >= Day(LocalDay)
               => post'.pc = "done" /\ post'.res = Res(400, ErrCheckout)]_vars

=============================================================================
